---- MODULE Spec2Model ----
(***************************************************************************)
(* Trivia quiz runner (repository pranayj02/Gemini).                       *)
(*                                                                         *)
(* src/script.js is the page script with a separate "Submit answer"        *)
(* button (confirmScore); src/unnamed/part_000 is the variant of the same  *)
(* script in which a team click scores at once (maybeScore) and a bank can *)
(* be pasted (loadCsvBtn).  Both keep the same `state` object.             *)
(*                                                                         *)
(* The JavaScript `state` object is the variable `state`; what the         *)
(* handlers read back from the page (which buttons exist, which are        *)
(* disabled) is the variable `dom`.  A disabled or removed button          *)
(* dispatches no click event, so the click actions are guarded by `dom`.   *)
(*                                                                         *)
(* script.js lines 271-280 repeat the tail of goToNextQuestion after the   *)
(* function has been closed; the model follows the complete function at    *)
(* lines 240-269.                                                          *)
(***************************************************************************)
EXTENDS Integers, Sequences, FiniteSets, TLC

VARIABLES state, dom, loadPc, last, advances

vars == <<state, dom, loadPc, last, advances>>

\* ------------------------------------------------------------------ bounds
\* rows of the question bank below the header row
MaxRows == 2
\* rows of the teams editor when Start is clicked
MaxTeams == 2
\* submissions scored after one start before the model stops scoring
MaxAnswered == 2
\* advances (Next clicks of a started quiz) after one start before the model
\* stops advancing
MaxAdvances == 3

\* --------------------------------------------------------------- constants
DEFAULT_POINTS == 10
\* `null` in state.selectedOptionIndex (options are 0..3)
NoOption == -1
\* `null` in state.selectedTeamId (ids are the strings "team-<index>")
NoTeam == "null"

\* ------------------------------------------------------------ CSV helpers
\* The cells a bank row is built from in this model, and what
\* parseInt(cell, 10) makes of each: NaN for a cell with no leading integer.
NaN == [nan |-> TRUE, n |-> 0]
Num(k) == [nan |-> FALSE, n |-> k]

ParseInt(cell) ==
  CASE cell = "1" -> Num(1)
    [] cell = "2" -> Num(2)
    [] cell = "3" -> Num(3)
    [] cell = "4" -> Num(4)
    [] cell = "5" -> Num(5)
    [] cell = "9" -> Num(9)
    [] cell = "0" -> Num(0)
    [] cell = "-5" -> Num(0 - 5)
    [] cell = "7up" -> Num(7)
    [] OTHER -> NaN

\* a property the record does not have (the header row lacks the column):
\* reading it gives `undefined`
Undefined == "<undefined>"

\* `cell || ""`
OrEmpty(cell) == IF cell = Undefined THEN "" ELSE cell

\* JavaScript `p || d` on a parseInt result: NaN and 0 are falsy
OrDefault(p, d) == IF p.nan \/ p.n = 0 THEN d ELSE p.n

Min(a, b) == IF a < b THEN a ELSE b
Max(a, b) == IF a > b THEN a ELSE b

\* the index without Math.max(0, ...)
ToQuestion_NoLowerClamp(r) ==
  [ text |-> OrEmpty(r.question),
    options |-> <<OrEmpty(r.option1), OrEmpty(r.option2),
                  OrEmpty(r.option3), OrEmpty(r.option4)>>,
    correctIndex |-> Min(3, OrDefault(ParseInt(r.correctIndex), 1) - 1),
    points |-> OrDefault(ParseInt(r.points), DEFAULT_POINTS) ]

\* the object csvToQuestions maps one record to (script.js 22-34)
ToQuestion(r) ==
  [ text |-> OrEmpty(r.question),
    options |-> <<OrEmpty(r.option1), OrEmpty(r.option2),
                  OrEmpty(r.option3), OrEmpty(r.option4)>>,
    correctIndex |-> Max(0, Min(3, OrDefault(ParseInt(r.correctIndex), 1) - 1)),
    points |-> OrDefault(ParseInt(r.points), DEFAULT_POINTS) ]

\* the filter without its test of the options
ValidQuestion_TextOnly(q) == q.text # ""

\* the filter of csvToQuestions (script.js 35-40)
ValidQuestion(q) ==
  /\ q.text # ""
  /\ Len(q.options) = 4
  /\ \A i \in 1..Len(q.options) : q.options[i] # ""

csvToQuestions(records) ==
  SelectSeq([i \in 1..Len(records) |-> ToQuestion(records[i])], ValidQuestion)

\* a[i] = a[j] alone: the element that was at i is lost
Swap_Overwrite(a, i, j) ==
  [k \in 1..Len(a) |-> IF k = i + 1 THEN a[j + 1] ELSE a[k]]

\* [a[i], a[j]] = [a[j], a[i]] with 0-based i, j
Swap(a, i, j) ==
  [k \in 1..Len(a) |-> IF k = i + 1 THEN a[j + 1]
                       ELSE IF k = j + 1 THEN a[i + 1] ELSE a[k]]

\* Math.floor(Math.random() * i): j never equals i
RandomChoices_BelowI(n) ==
  {js \in [1..(n - 1) -> 0..(n - 1)] : \A i \in 1..(n - 1) : js[i] < i}

\* the values Math.floor(Math.random() * (i + 1)) can take for i = n-1 .. 1
RandomChoices(n) ==
  {js \in [1..(n - 1) -> 0..(n - 1)] : \A i \in 1..(n - 1) : js[i] <= i}

RECURSIVE ShuffleFrom(_, _, _)
ShuffleFrom(a, i, js) ==
  IF i <= 0 THEN a ELSE ShuffleFrom(Swap(a, i, js[i]), i - 1, js)

\* Fisher-Yates on a copy of arr, the random indices given by js
shuffleArray(arr, js) == ShuffleFrom(arr, Len(arr) - 1, js)

\* the two arrays when shuffleArray returns: the caller's arr, which the
\* function only reads ([...arr] is a new array), and the array it returns
shuffleArrayCall(arr, js) == [arr |-> arr, ret |-> shuffleArray(arr, js)]

\* ------------------------------------------------------- inputs of the model
RecA ==
  [ question |-> "Q1", option1 |-> "a", option2 |-> "b", option3 |-> "c",
    option4 |-> "d", correctIndex |-> "2", points |-> "5" ]
RecB ==
  [ question |-> "Q2", option1 |-> "a", option2 |-> "b", option3 |-> "c",
    option4 |-> "d", correctIndex |-> "x", points |-> "" ]
RecBad ==
  [ question |-> "Q3", option1 |-> "a", option2 |-> "b", option3 |-> "",
    option4 |-> "d", correctIndex |-> "1", points |-> "5" ]

BankRecords == {RecA, RecB, RecBad}

SeqsUpTo(S, n) == UNION {[1..k -> S] : k \in 0..n}

\* what parseCSV returns for the fetched text: one record per row below the
\* header row (none for a text with a header row only)
ParsedBanks == SeqsUpTo(BankRecords, MaxRows)

\* String.prototype.trim on the texts a team-name input holds in the model
Trim(s) ==
  CASE s = " A" -> "A"
    [] OTHER -> s

\* The teams editor when Start is clicked: MaxTeams rows, the first ones
\* left blank, the others filled in with " A", "B", " A", ... in turn.
FilledName(k) == IF k % 2 = 1 THEN " A" ELSE "B"
EditorRows(blanks) ==
  [i \in 1..MaxTeams |-> IF i <= blanks THEN "" ELSE FilledName(i - blanks)]
EditorContents == {EditorRows(blanks) : blanks \in 0..MaxTeams}

TeamIds == <<"team-0", "team-1", "team-2", "team-3">>

\* ------------------------------------------------------------------- state
InitState ==
  [ questions |-> <<>>,
    currentIndex |-> 0 - 1,
    teams |-> <<>>,
    scores |-> <<>>,
    answeredCount |-> <<>>,
    correctCount |-> <<>>,
    selectedOptionIndex |-> NoOption,
    selectedTeamId |-> NoTeam,
    quizStarted |-> FALSE ]

\* optionButtons: "none" (container empty), "enabled", "disabled"
\* teamButtons: the team ids the buttons of #team-buttons were built for
\* submitDisabled: submitAnswerBtn.disabled
InitDom(sd) ==
  [ optionButtons |-> "none", teamButtons |-> <<>>, submitDisabled |-> sd ]

Out(s, d, res) == [s |-> s, d |-> d, res |-> res]

\* -------------------------------------------------- handlers of script.js
\* Each handler maps the `state` object and the page to what they are when
\* the handler returns (or throws), with the outcome in `res`.

clearOptionsUI(d) == [d EXCEPT !.optionButtons = "none"]

\* renderQuestion / renderOptions: four fresh, enabled option buttons
renderQuestion(s, d) == [d EXCEPT !.optionButtons = "enabled"]

endQuiz(s, d) == clearOptionsUI(d)

\* the pending selection survives the question change
goToNextQuestion_KeepSelection(s, d) ==
  IF ~s.quizStarted \/ Len(s.questions) = 0 THEN Out(s, d, "ignored")
  ELSE LET nextIndex == s.currentIndex + 1 IN
    IF nextIndex >= Len(s.questions) THEN Out(s, [d EXCEPT !.optionButtons = "none"], "finished")
    ELSE Out([s EXCEPT !.currentIndex = nextIndex],
             [d EXCEPT !.submitDisabled = TRUE, !.optionButtons = "enabled"], "ok")

\* the guard does not look at quizStarted
goToNextQuestion_NoStartedGuard(s, d) ==
  IF Len(s.questions) = 0 THEN Out(s, d, "ignored")
  ELSE LET nextIndex == s.currentIndex + 1 IN
    IF nextIndex >= Len(s.questions) THEN Out(s, [d EXCEPT !.optionButtons = "none"], "finished")
    ELSE Out([s EXCEPT !.currentIndex = nextIndex,
                       !.selectedOptionIndex = NoOption,
                       !.selectedTeamId = NoTeam],
             [d EXCEPT !.submitDisabled = TRUE, !.optionButtons = "enabled"], "ok")

\* the end test with > for >=: the quiz ends one advance late
goToNextQuestion_OffByOne(s, d) ==
  IF ~s.quizStarted \/ Len(s.questions) = 0 THEN Out(s, d, "ignored")
  ELSE LET nextIndex == s.currentIndex + 1 IN
    IF nextIndex > Len(s.questions) THEN Out(s, [d EXCEPT !.optionButtons = "none"], "finished")
    ELSE Out([s EXCEPT !.currentIndex = nextIndex,
                       !.selectedOptionIndex = NoOption,
                       !.selectedTeamId = NoTeam],
             [d EXCEPT !.submitDisabled = TRUE, !.optionButtons = "enabled"], "ok")

goToNextQuestion(s, d) ==
  IF ~s.quizStarted \/ Len(s.questions) = 0 THEN Out(s, d, "ignored")
  ELSE LET nextIndex == s.currentIndex + 1 IN
    IF nextIndex >= Len(s.questions) THEN Out(s, endQuiz(s, d), "finished")
    ELSE LET s1 == [s EXCEPT !.currentIndex = nextIndex,
                             !.selectedOptionIndex = NoOption,
                             !.selectedTeamId = NoTeam]
             d1 == [d EXCEPT !.submitDisabled = TRUE]
         IN Out(s1, renderQuestion(s1, d1), "ok")

\* names.map((name, index) => ({id: `team-${index}`, name}))
BuildTeams(names) ==
  [i \in 1..Len(names) |-> [id |-> TeamIds[i], name |-> names[i]]]

TeamIdSet(teams) == {teams[i].id : i \in 1..Len(teams)}

ZeroTally(teams) == [id \in TeamIdSet(teams) |-> 0]

buildTeamButtons(s, d) ==
  [d EXCEPT !.teamButtons = [i \in 1..Len(s.teams) |-> s.teams[i].id]]

\* inputs.map(i => i.value.trim()).filter(Boolean)
EnteredNames(raw) ==
  SelectSeq([i \in 1..Len(raw) |-> Trim(raw[i])], LAMBDA n : n # "")

\* start without the check that a bank is loaded
startQuiz_NoBankCheck(s, d, raw) ==
  LET names == EnteredNames(raw) IN
  IF Len(names) = 0 THEN Out(s, d, "rejected")
  ELSE LET teams == BuildTeams(names)
           s1 == [s EXCEPT !.teams = teams,
                           !.scores = ZeroTally(teams),
                           !.answeredCount = ZeroTally(teams),
                           !.correctCount = ZeroTally(teams),
                           !.quizStarted = TRUE,
                           !.currentIndex = 0 - 1]
           r == goToNextQuestion(s1, d)
       IN Out(r.s, buildTeamButtons(r.s, r.d), "ok")

\* start that builds the roster before it validates the names
startQuiz_TeamsFirst(s, d, raw) ==
  LET names == EnteredNames(raw)
      s0 == [s EXCEPT !.teams = BuildTeams(names)]
  IN
  IF Len(names) = 0 THEN Out(s0, d, "rejected")
  ELSE IF Len(s.questions) = 0 THEN Out(s0, d, "rejected")
  ELSE LET s1 == [s0 EXCEPT !.scores = ZeroTally(s0.teams),
                            !.answeredCount = ZeroTally(s0.teams),
                            !.correctCount = ZeroTally(s0.teams),
                            !.quizStarted = TRUE,
                            !.currentIndex = 0 - 1]
           r == goToNextQuestion(s1, d)
       IN Out(r.s, buildTeamButtons(r.s, r.d), "ok")

startQuiz(s, d, raw) ==
  LET names == EnteredNames(raw) IN
  IF Len(names) = 0 THEN Out(s, d, "rejected")
  ELSE IF Len(s.questions) = 0 THEN Out(s, d, "rejected")
  ELSE LET teams == BuildTeams(names)
           s1 == [s EXCEPT !.teams = teams,
                           !.scores = ZeroTally(teams),
                           !.answeredCount = ZeroTally(teams),
                           !.correctCount = ZeroTally(teams),
                           !.quizStarted = TRUE,
                           !.currentIndex = 0 - 1]
           r == goToNextQuestion(s1, d)
       IN Out(r.s, buildTeamButtons(r.s, r.d), "ok")

\* reset that shuffles the bank again (here: exchanges its first two questions)
resetQuiz_Reshuffles(s, d, confirmed) ==
  IF ~confirmed THEN Out(s, d, "declined")
  ELSE Out([s EXCEPT !.currentIndex = 0 - 1,
                     !.selectedOptionIndex = NoOption,
                     !.selectedTeamId = NoTeam,
                     !.quizStarted = FALSE,
                     !.questions = IF Len(@) >= 2 THEN Swap(@, 0, 1) ELSE @],
           [d EXCEPT !.optionButtons = "none"], "ok")

\* reset that does not wait for the operator's answer
resetQuiz_Unconfirmed(s, d, confirmed) ==
  Out([s EXCEPT !.currentIndex = 0 - 1,
                !.selectedOptionIndex = NoOption,
                !.selectedTeamId = NoTeam,
                !.quizStarted = FALSE],
      [d EXCEPT !.optionButtons = "none"],
      IF confirmed THEN "ok" ELSE "declined")

resetQuiz(s, d, confirmed) ==
  IF ~confirmed THEN Out(s, d, "declined")
  ELSE Out([s EXCEPT !.currentIndex = 0 - 1,
                     !.selectedOptionIndex = NoOption,
                     !.selectedTeamId = NoTeam,
                     !.quizStarted = FALSE],
           clearOptionsUI(d), "ok")

checkSubmitButtonState(s, d) ==
  [d EXCEPT !.submitDisabled =
     ~(s.selectedOptionIndex # NoOption /\ s.selectedTeamId # NoTeam)]

optionClick(s, d, i) ==
  IF ~s.quizStarted THEN Out(s, d, "ignored")
  ELSE LET s1 == [s EXCEPT !.selectedOptionIndex = i]
       IN Out(s1, checkSubmitButtonState(s1, d), "ok")

teamClick(s, d, id) ==
  LET s1 == [s EXCEPT !.selectedTeamId = id]
  IN Out(s1, checkSubmitButtonState(s1, d), "ok")

\* state.teams.find(t => t.id === id): the matching positions
FindTeam(teams, id) == {i \in 1..Len(teams) : teams[i].id = id}

\* the guard with && for ||: only a submission with neither selection is refused
MissingSelection_Both(s) ==
  s.selectedOptionIndex = NoOption /\ s.selectedTeamId = NoTeam

\* the guard of confirmScore / maybeScore
MissingSelection(s) ==
  s.selectedOptionIndex = NoOption \/ s.selectedTeamId = NoTeam

\* answeredCount incremented on the wrong-answer branch only
Scored_AnsweredOnWrong(s, q, teamId) ==
  IF s.selectedOptionIndex = q.correctIndex
  THEN [s EXCEPT !.scores[teamId] = @ + q.points,
                 !.correctCount[teamId] = @ + 1]
  ELSE [s EXCEPT !.answeredCount[teamId] = @ + 1]

\* every correct answer scores DEFAULT_POINTS, whatever the question's points
Scored_DefaultPoints(s, q, teamId) ==
  LET s1 == [s EXCEPT !.answeredCount[teamId] = @ + 1]
  IN IF s.selectedOptionIndex = q.correctIndex
     THEN [s1 EXCEPT !.scores[teamId] = @ + DEFAULT_POINTS,
                     !.correctCount[teamId] = @ + 1]
     ELSE s1

\* the tallies after scoring question q for the team teamId
Scored(s, q, teamId) ==
  LET isCorrect == s.selectedOptionIndex = q.correctIndex
      s1 == [s EXCEPT !.answeredCount[teamId] = @ + 1]
  IN IF isCorrect
     THEN [s1 EXCEPT !.scores[teamId] =
                        @ + (IF q.points # 0 THEN q.points ELSE DEFAULT_POINTS),
                     !.correctCount[teamId] = @ + 1]
     ELSE s1

lockOptions(d) ==
  [d EXCEPT !.optionButtons = IF @ = "none" THEN "none" ELSE "disabled"]

confirmScore(s, d) ==
  IF MissingSelection(s) THEN Out(s, d, "rejected")
  \* q is undefined: q.correctIndex throws a TypeError
  ELSE IF s.currentIndex + 1 \notin 1..Len(s.questions) THEN Out(s, d, "threw")
  \* team is undefined: team.id throws a TypeError
  ELSE IF FindTeam(s.teams, s.selectedTeamId) = {} THEN Out(s, d, "threw")
  ELSE LET q == s.questions[s.currentIndex + 1]
           d1 == [lockOptions(d) EXCEPT !.submitDisabled = TRUE]
       IN Out(Scored(s, q, s.selectedTeamId), d1, "ok")

\* `tally[id] || 0`
OrZero(tally, id) == IF id \in DOMAIN tally THEN tally[id] ELSE 0

\* the row renderStandings maps a team to (script.js 436-444)
StandingRow(s, t) ==
  [ id |-> t.id,
    name |-> t.name,
    score |-> OrZero(s.scores, t.id),
    answered |-> OrZero(s.answeredCount, t.id),
    correct |-> OrZero(s.correctCount, t.id) ]

\* the comparator with its operands exchanged: lowest score first
compareRows_Ascending(a, b) == a.score - b.score

\* (a, b) => b.score - a.score
compareRows(a, b) == b.score - a.score

\* Array.prototype.sort is stable (ECMAScript 2019): a row goes behind every
\* row the comparator does not put after it
RECURSIVE InsertRow(_, _)
InsertRow(sorted, row) ==
  IF sorted = <<>> THEN <<row>>
  ELSE IF compareRows(Head(sorted), row) <= 0
       THEN <<Head(sorted)>> \o InsertRow(Tail(sorted), row)
       ELSE <<row>> \o sorted

RECURSIVE SortRows(_, _)
SortRows(rows, n) ==
  IF n = 0 THEN <<>> ELSE InsertRow(SortRows(rows, n - 1), rows[n])

\* the rows of the standings table, top row first; the rank shown in a row
\* is its position (index + 1)
renderStandings(s) ==
  SortRows([i \in 1..Len(s.teams) |-> StandingRow(s, s.teams[i])], Len(s.teams))

\* what loadQuestionsFromRepo does once response.text() has resolved
loadParsed(s, d, parsed, js) ==
  LET qs == csvToQuestions(parsed) IN
  IF Len(qs) = 0 THEN Out(s, d, "empty")
  ELSE Out([s EXCEPT !.questions = shuffleArray(qs, js),
                     !.currentIndex = 0 - 1],
           clearOptionsUI(d), "ok")

\* ------------------------------------------------------------------ actions
\* `last` is the last event: the handler that ran, its outcome, and for a
\* start the rows of the teams editor it read
Event(op, res, arg) == [op |-> op, res |-> res, arg |-> arg]

\* `advances` counts the advances that ran past the guard of goToNextQuestion
\* since the last successful start; it is -1 when no quiz has been started
\* since the page was loaded or reset
Counted(op, res, n) ==
  IF op = "start" /\ res = "ok" THEN 0
  ELSE IF op = "reset" /\ res = "ok" THEN 0 - 1
  ELSE IF op = "next" /\ res \in {"ok", "finished"} THEN n + 1
  ELSE n

Apply(op, arg, r) ==
  /\ state' = r.s
  /\ dom' = r.d
  /\ last' = Event(op, r.res, arg)
  /\ advances' = Counted(op, r.res, advances)

Init ==
  /\ state = InitState
  /\ \E sd \in BOOLEAN : dom = InitDom(sd)
  /\ loadPc = "fetch"
  /\ last = Event("init", "ok", <<>>)
  /\ advances = 0 - 1

\* await fetch("questions.csv"): resolves ok, resolves not ok, or rejects
FetchSettles ==
  /\ loadPc = "fetch"
  /\ \E outcome \in {"ok", "notok", "reject"} :
       /\ loadPc' = IF outcome = "ok" THEN "text" ELSE "failed"
       /\ last' = Event("fetch", outcome, <<>>)
  /\ UNCHANGED <<state, dom, advances>>

\* await response.text() rejects
TextFails ==
  /\ loadPc = "text"
  /\ loadPc' = "failed"
  /\ last' = Event("load", "failed", <<>>)
  /\ UNCHANGED <<state, dom, advances>>

\* await response.text() resolves
TextSettles ==
  /\ loadPc = "text"
  /\ \E parsed \in ParsedBanks :
       \E js \in RandomChoices(Len(csvToQuestions(parsed))) :
         Apply("load", <<>>, loadParsed(state, dom, parsed, js))
  /\ loadPc' = "done"

StartClick ==
  /\ \E raw \in EditorContents : Apply("start", raw, startQuiz(state, dom, raw))
  /\ UNCHANGED loadPc

ResetClick ==
  /\ \E confirmed \in BOOLEAN : Apply("reset", <<>>, resetQuiz(state, dom, confirmed))
  /\ UNCHANGED loadPc

NextClick ==
  /\ advances < MaxAdvances
  /\ Apply("next", <<>>, goToNextQuestion(state, dom))
  /\ UNCHANGED loadPc

OptionClick ==
  /\ dom.optionButtons = "enabled"
  /\ \E i \in 0..3 : Apply("option", <<>>, optionClick(state, dom, i))
  /\ UNCHANGED loadPc

TeamClick ==
  /\ \E k \in 1..Len(dom.teamButtons) :
       Apply("team", <<>>, teamClick(state, dom, dom.teamButtons[k]))
  /\ UNCHANGED loadPc

RECURSIVE SumOver(_, _)
SumOver(f, S) ==
  IF S = {} THEN 0
  ELSE LET x == CHOOSE y \in S : TRUE IN f[x] + SumOver(f, S \ {x})

\* the model stops scoring once MaxAnswered submissions have been scored
\* since the last start
WithinBound(s) ==
  SumOver(s.answeredCount, DOMAIN s.answeredCount) < MaxAnswered

SubmitClick ==
  /\ ~dom.submitDisabled
  /\ confirmScore(state, dom).res = "ok" => WithinBound(state)
  /\ Apply("submit", <<>>, confirmScore(state, dom))
  /\ UNCHANGED loadPc

Next ==
  \/ FetchSettles
  \/ TextFails
  \/ TextSettles
  \/ StartClick
  \/ ResetClick
  \/ NextClick
  \/ OptionClick
  \/ TeamClick
  \/ SubmitClick

Spec == Init /\ [][Next]_vars

\* ------------------------------------------- script.js on two more inputs
\* The page of script.js run on a bank whose rows have a negative points
\* field, with the same name typed into every row of the teams editor (with
\* and without a leading blank).
RecNeg == [RecA EXCEPT !.points = "-5"]

ParsedBanks_Odd == SeqsUpTo({RecNeg}, MaxRows)

DuplicateRows == [i \in 1..MaxTeams |-> IF i % 2 = 1 THEN " A" ELSE "A"]

EditorContents_Odd == {DuplicateRows, [i \in 1..MaxTeams |-> ""]}

TextSettles_Odd ==
  /\ loadPc = "text"
  /\ \E parsed \in ParsedBanks_Odd :
       \E js \in RandomChoices(Len(csvToQuestions(parsed))) :
         Apply("load", <<>>, loadParsed(state, dom, parsed, js))
  /\ loadPc' = "done"

StartClick_Odd ==
  /\ \E raw \in EditorContents_Odd :
       Apply("start", raw, startQuiz(state, dom, raw))
  /\ UNCHANGED loadPc

Next_Odd ==
  \/ FetchSettles
  \/ TextFails
  \/ TextSettles_Odd
  \/ StartClick_Odd
  \/ ResetClick
  \/ NextClick
  \/ OptionClick
  \/ TeamClick
  \/ SubmitClick

SpecOddInputs == Init /\ [][Next_Odd]_vars

\* ------------------------------------------ handlers of src/unnamed/part_000
\* part_000 has no submit button: a team click scores at once (maybeScore),
\* and a bank can be pasted at any time (loadCsvBtn).  Its reset handler and
\* its repository load change `state` as those of script.js do.

goToNextQuestion_p0(s, d) ==
  IF ~s.quizStarted \/ Len(s.questions) = 0 THEN Out(s, d, "ignored")
  ELSE LET nextIndex == s.currentIndex + 1 IN
    IF nextIndex >= Len(s.questions) THEN Out(s, endQuiz(s, d), "finished")
    ELSE LET s1 == [s EXCEPT !.currentIndex = nextIndex,
                             !.selectedOptionIndex = NoOption,
                             !.selectedTeamId = NoTeam]
         IN Out(s1, renderQuestion(s1, d), "ok")

startQuiz_p0(s, d, raw) ==
  LET names == EnteredNames(raw) IN
  IF Len(names) = 0 THEN Out(s, d, "rejected")
  ELSE IF Len(s.questions) = 0 THEN Out(s, d, "rejected")
  ELSE LET teams == BuildTeams(names)
           s1 == [s EXCEPT !.teams = teams,
                           !.scores = ZeroTally(teams),
                           !.answeredCount = ZeroTally(teams),
                           !.correctCount = ZeroTally(teams),
                           !.quizStarted = TRUE,
                           !.currentIndex = 0 - 1]
           r == goToNextQuestion_p0(s1, d)
       IN Out(r.s, buildTeamButtons(r.s, r.d), "ok")

optionClick_p0(s, d, i) ==
  IF ~s.quizStarted THEN Out(s, d, "ignored")
  ELSE Out([s EXCEPT !.selectedOptionIndex = i], d, "ok")

maybeScore(s, d) ==
  IF MissingSelection(s) THEN Out(s, d, "rejected")
  ELSE IF s.currentIndex + 1 \notin 1..Len(s.questions) THEN Out(s, d, "threw")
  ELSE IF FindTeam(s.teams, s.selectedTeamId) = {} THEN Out(s, d, "threw")
  ELSE LET q == s.questions[s.currentIndex + 1]
       IN Out(Scored(s, q, s.selectedTeamId), lockOptions(d), "ok")

teamClick_p0(s, d, id) == maybeScore([s EXCEPT !.selectedTeamId = id], d)

\* the loadCsvBtn click handler; textEmpty: the textarea trims to ""
loadCsv(s, d, textEmpty, parsed, js) ==
  IF textEmpty THEN Out(s, d, "rejected")
  ELSE loadParsed(s, d, parsed, js)

\* ------------------------------------------------------ actions of part_000
\* the banks part_000 is run on: rows that are valid (RecA) or dropped (RecBad)
ParsedBanks_p0 == SeqsUpTo({RecA, RecBad}, MaxRows)

\* part_000 is run without the count of advances
Apply_p0(op, arg, r) ==
  /\ state' = r.s
  /\ dom' = r.d
  /\ last' = Event(op, r.res, arg)
  /\ UNCHANGED advances

\* await response.text() resolves (part_000 71-84)
TextSettles_p0 ==
  /\ loadPc = "text"
  /\ \E parsed \in ParsedBanks_p0 :
       \E js \in RandomChoices(Len(csvToQuestions(parsed))) :
         Apply_p0("load", <<>>, loadParsed(state, dom, parsed, js))
  /\ loadPc' = "done"

LoadCsvClick ==
  /\ \E textEmpty \in BOOLEAN :
       \E parsed \in ParsedBanks_p0 :
         \E js \in RandomChoices(Len(csvToQuestions(parsed))) :
           /\ textEmpty => parsed = <<>> /\ js = <<>>
           /\ Apply_p0("paste", <<>>, loadCsv(state, dom, textEmpty, parsed, js))
  /\ UNCHANGED loadPc

ResetClick_p0 ==
  /\ \E confirmed \in BOOLEAN :
       Apply_p0("reset", <<>>, resetQuiz(state, dom, confirmed))
  /\ UNCHANGED loadPc

StartClick_p0 ==
  /\ \E raw \in EditorContents : Apply_p0("start", raw, startQuiz_p0(state, dom, raw))
  /\ UNCHANGED loadPc

NextClick_p0 ==
  /\ Apply_p0("next", <<>>, goToNextQuestion_p0(state, dom))
  /\ UNCHANGED loadPc

OptionClick_p0 ==
  /\ dom.optionButtons = "enabled"
  /\ \E i \in 0..3 : Apply_p0("option", <<>>, optionClick_p0(state, dom, i))
  /\ UNCHANGED loadPc

TeamClick_p0 ==
  /\ \E k \in 1..Len(dom.teamButtons) :
       LET r == teamClick_p0(state, dom, dom.teamButtons[k]) IN
         /\ r.res = "ok" => WithinBound(state)
         /\ Apply_p0("team", <<>>, r)
  /\ UNCHANGED loadPc

Next_p0 ==
  \/ FetchSettles
  \/ TextFails
  \/ TextSettles_p0
  \/ LoadCsvClick
  \/ StartClick_p0
  \/ ResetClick_p0
  \/ NextClick_p0
  \/ OptionClick_p0
  \/ TeamClick_p0

Init_p0 ==
  /\ state = InitState
  /\ dom = InitDom(TRUE)
  /\ loadPc = "fetch"
  /\ last = Event("init", "ok", <<>>)
  /\ advances = 0 - 1

SpecPart000 == Init_p0 /\ [][Next_p0]_vars

\* ------------------------------------------------------------- the loader
\* parseCSV, csvToQuestions and shuffleArray run on their own, as
\* loadQuestionsFromRepo chains them (script.js 152-159), on rows whose cells
\* cover what the two numeric columns and the text columns can hold.
LoaderCells ==
  {"1", "2", "3", "4", "5", "9", "0", "-5", "7up", "", "x", Undefined}

\* a valid row with `cell` in its correctIndex and points columns
NumberedRow(cell) ==
  [ question |-> "Q1", option1 |-> "a", option2 |-> "b", option3 |-> "c",
    option4 |-> "d", correctIndex |-> cell, points |-> cell ]

\* rows with a text cell empty or absent
DroppedRows ==
  { [RecA EXCEPT !.question = ""],
    [RecA EXCEPT !.question = Undefined],
    [RecA EXCEPT !.option1 = ""],
    [RecA EXCEPT !.option2 = ""],
    RecBad,
    [RecA EXCEPT !.option4 = ""],
    [RecA EXCEPT !.option4 = Undefined] }

LoaderRecords == {NumberedRow(cell) : cell \in LoaderCells} \cup DroppedRows

LoaderBanks == SeqsUpTo(LoaderRecords, MaxRows)

\* const parsed = parseCSV(text)
Init_Loader ==
  /\ state = InitState
  /\ dom = InitDom(TRUE)
  /\ loadPc = "parsed"
  /\ \E parsed \in LoaderBanks : last = Event("parseCSV", "ok", parsed)
  /\ advances = 0 - 1

\* const questions = csvToQuestions(parsed); the model keeps `questions` in
\* state.questions
ConvertRecords ==
  /\ loadPc = "parsed"
  /\ state' = [state EXCEPT !.questions = csvToQuestions(last.arg)]
  /\ last' = Event("csvToQuestions", "ok", last.arg)
  /\ loadPc' = "converted"
  /\ UNCHANGED <<dom, advances>>

\* state.questions = shuffleArray(questions); last.arg is `questions` as the
\* call leaves it
ShuffleQuestions ==
  /\ loadPc = "converted"
  /\ \E js \in RandomChoices(Len(state.questions)) :
       LET r == shuffleArrayCall(state.questions, js) IN
         /\ state' = [state EXCEPT !.questions = r.ret]
         /\ last' = Event("shuffleArray", "ok", r.arr)
  /\ loadPc' = "shuffled"
  /\ UNCHANGED <<dom, advances>>

Next_Loader ==
  \/ ConvertRecords
  \/ ShuffleQuestions

SpecLoader == Init_Loader /\ [][Next_Loader]_vars

\* ================================================================== claims
Tallies(s) == <<s.scores, s.answeredCount, s.correctCount>>

\* The answer lock as script.js keeps it: confirmScore disables the option
\* buttons of the question on show ("so they can't submit twice for the same
\* question"); the next question is rendered with fresh, enabled buttons.
AnswerLocked == dom.optionButtons = "disabled"

Blank(raw) == \A i \in 1..Len(raw) : raw[i] = ""

\* C1 (idempotent lock): once an answer has been submitted for the question
\* on show, no selectOption, selectTeam or submitAnswer event changes scores,
\* answeredCount or correctCount of any team.
C1_IdempotentLock ==
  [][(AnswerLocked /\ last'.op \in {"option", "team", "submit"})
       => Tallies(state') = Tallies(state)]_vars

\* C2: in every reachable state every team has correctCount <= answeredCount.
C2_CorrectAtMostAnswered ==
  /\ DOMAIN state.correctCount = DOMAIN state.answeredCount
  /\ \A t \in DOMAIN state.answeredCount :
       state.correctCount[t] <= state.answeredCount[t]

\* a team has a correct and a wrong answer on its tally
C2_Witness ==
  \E t \in DOMAIN state.answeredCount :
    state.correctCount[t] = 1 /\ state.answeredCount[t] = 2

\* C3: in every reachable state every team has
\* answeredCount <= currentIndex + 1.
C3_AnsweredAtMostPresented ==
  \A t \in DOMAIN state.answeredCount :
    state.answeredCount[t] <= state.currentIndex + 1

\* C4 (monotonic progress): while the quiz stays started no event makes
\* currentIndex smaller, and currentIndex never exceeds questions.length - 1.
C4_MonotonicProgress ==
  [][/\ (state.quizStarted /\ state'.quizStarted)
          => state'.currentIndex >= state.currentIndex
     /\ state'.quizStarted
          => state'.currentIndex <= Len(state'.questions) - 1]_vars

\* C5: whenever quizStarted is true the question sequence is non-empty,
\* 0 <= currentIndex < questions.length, and the load has completed.
C5_StartedHasQuestion ==
  state.quizStarted =>
    /\ Len(state.questions) > 0
    /\ 0 <= state.currentIndex
    /\ state.currentIndex < Len(state.questions)
    /\ loadPc = "done"

\* a started quiz that has been advanced to the last of two questions
C5_Witness ==
  /\ state.quizStarted
  /\ Len(state.questions) = 2
  /\ state.currentIndex = 1
  /\ last.op = "next" /\ last.res = "ok"

\* C6: an accepted submitAnswer with selected team s and option o on the
\* current question q adds 1 to answeredCount[s]; if o is q's correct index
\* it adds q.points to scores[s] and 1 to correctCount[s], otherwise both
\* are unchanged; the tallies of the other teams and currentIndex are
\* unchanged.
C6_SubmitEffect ==
  [][(last'.op = "submit" /\ last'.res = "ok") =>
       LET s == state.selectedTeamId
           o == state.selectedOptionIndex
           q == state.questions[state.currentIndex + 1]
       IN /\ state'.answeredCount[s] = state.answeredCount[s] + 1
          /\ o = q.correctIndex =>
               /\ state'.scores[s] = state.scores[s] + q.points
               /\ state'.correctCount[s] = state.correctCount[s] + 1
          /\ o # q.correctIndex =>
               /\ state'.scores[s] = state.scores[s]
               /\ state'.correctCount[s] = state.correctCount[s]
          /\ DOMAIN state'.scores = DOMAIN state.scores
          /\ DOMAIN state'.answeredCount = DOMAIN state.answeredCount
          /\ DOMAIN state'.correctCount = DOMAIN state.correctCount
          /\ \A t \in DOMAIN state.scores \ {s} :
               /\ state'.scores[t] = state.scores[t]
               /\ state'.answeredCount[t] = state.answeredCount[t]
               /\ state'.correctCount[t] = state.correctCount[t]
          /\ state'.currentIndex = state.currentIndex]_vars

\* a correct answer to the 5-point question has just been scored in a quiz
\* with two teams
C6_Witness ==
  /\ last.op = "submit" /\ last.res = "ok"
  /\ Len(state.teams) = 2
  /\ \E t \in DOMAIN state.scores :
       state.scores[t] = 5 /\ state.correctCount[t] = 1

\* C7: confirmScore called while selectedOptionIndex or selectedTeamId is
\* unset returns with the state object as it was (tallies, currentIndex and
\* both selections included).
C7_SubmitRejected ==
  (state.selectedOptionIndex = NoOption \/ state.selectedTeamId = NoTeam)
    => confirmScore(state, dom).s = state

\* the submit button was clicked with a selection missing
C7_Witness ==
  /\ last.op = "submit" /\ last.res = "rejected"
  /\ state.selectedOptionIndex = NoOption

\* C8: a start with no non-blank team name, or with an empty question
\* sequence, is rejected and leaves the state object unchanged (quizStarted,
\* teams, tallies and currentIndex included).
C8_StartRejected ==
  [][(last'.op = "start" /\ (Blank(last'.arg) \/ Len(state.questions) = 0))
       => (last'.res = "rejected" /\ state' = state)]_vars

\* start has just been refused after a load that yielded no valid question
C8_Witness ==
  /\ last.op = "start" /\ last.res = "rejected"
  /\ loadPc = "done"
  /\ Len(state.questions) = 0
  /\ ~state.quizStarted

\* the names a start is given, blanks dropped, in entry order
RECURSIVE NonBlankNames(_)
NonBlankNames(raw) ==
  IF raw = <<>> THEN <<>>
  ELSE IF Head(raw) = "" THEN NonBlankNames(Tail(raw))
  ELSE IF Head(raw) = " A" THEN <<"A">> \o NonBlankNames(Tail(raw))
  ELSE <<Head(raw)>> \o NonBlankNames(Tail(raw))

\* C9: right after every successful start quizStarted is true, currentIndex
\* is 0, both selections are unset, there is one team per non-blank entered
\* name in entry order, and every tally of every team is 0, whatever the
\* state before the start.
C9_StartEffect ==
  [][(last'.op = "start" /\ last'.res = "ok") =>
       LET names == NonBlankNames(last'.arg)
           ids == TeamIdSet(state'.teams)
       IN /\ state'.quizStarted
          /\ state'.currentIndex = 0
          /\ state'.selectedOptionIndex = NoOption
          /\ state'.selectedTeamId = NoTeam
          /\ Len(state'.teams) = Len(names)
          /\ \A i \in 1..Len(names) : state'.teams[i].name = names[i]
          /\ Cardinality(ids) = Len(names)
          /\ DOMAIN state'.scores = ids
          /\ DOMAIN state'.answeredCount = ids
          /\ DOMAIN state'.correctCount = ids
          /\ \A t \in ids :
               /\ state'.scores[t] = 0
               /\ state'.answeredCount[t] = 0
               /\ state'.correctCount[t] = 0]_vars

\* a start that read the rows " A", "B" has just succeeded
C9_Witness ==
  /\ last.op = "start" /\ last.res = "ok"
  /\ last.arg = <<" A", "B">>
  /\ Len(state.teams) = 2
  /\ state.currentIndex = 0

\* C10: a start issued while the quiz is already started leaves teams,
\* scores, answeredCount, correctCount and currentIndex unchanged.
C10_StartRequiresNotStarted ==
  [][(state.quizStarted /\ last'.op = "start") =>
       /\ state'.teams = state.teams
       /\ Tallies(state') = Tallies(state)
       /\ state'.currentIndex = state.currentIndex]_vars

\* The quiz has ended as script.js shows it: endQuiz has emptied the options
\* container of a started quiz (a question on show always has its buttons).
Finished == state.quizStarted /\ dom.optionButtons = "none"

\* C11: an advance of a started quiz with currentIndex + 1 < questions.length
\* adds exactly 1 to currentIndex and leaves both selections unset; with
\* currentIndex + 1 = questions.length it finishes the quiz and leaves
\* currentIndex as it was; in both cases, and for a further advance after
\* the end, the tallies are unchanged; an advance while not started changes
\* nothing.
C11_AdvanceEffect ==
  [][last'.op = "next" =>
       IF ~state.quizStarted THEN state' = state /\ dom' = dom
       ELSE /\ Tallies(state') = Tallies(state)
            /\ IF state.currentIndex + 1 < Len(state.questions)
               THEN /\ state'.currentIndex = state.currentIndex + 1
                    /\ state'.selectedOptionIndex = NoOption
                    /\ state'.selectedTeamId = NoTeam
                    /\ ~Finished'
               ELSE /\ state'.currentIndex = state.currentIndex
                    /\ Finished']_vars

\* an advance has just run on a quiz that had already ended, with an answer
\* on the tallies
C11_Witness ==
  /\ last.op = "next" /\ last.res = "finished"
  /\ advances > Len(state.questions)
  /\ \E t \in DOMAIN state.answeredCount : state.answeredCount[t] > 0

\* C12: after a successful start on N questions, with any select and submit
\* events between the advances, the quiz is Finished exactly when N advances
\* have run, and before that currentIndex is the number of advances (N = 2:
\* the first advance gives currentIndex 1, the second Finished).
C12_FinishedAtNthAdvance ==
  state.quizStarted =>
    LET N == Len(state.questions) IN
      /\ advances >= 0
      /\ Finished <=> advances >= N
      /\ advances < N => state.currentIndex = advances

\* the second advance on a bank of two questions has just ended a quiz in
\* which an answer was submitted
C12_Witness ==
  /\ Len(state.questions) = 2
  /\ advances = 2
  /\ Finished
  /\ last.op = "next" /\ last.res = "finished"
  /\ \E t \in DOMAIN state.answeredCount : state.answeredCount[t] > 0

\* C13: a confirmed reset leaves quizStarted false, currentIndex = -1, both
\* selections unset and no team with a non-zero scores, answeredCount or
\* correctCount entry.
C13_ResetClearsTallies ==
  [][(last'.op = "reset" /\ last'.res = "ok") =>
       /\ ~state'.quizStarted
       /\ state'.currentIndex = 0 - 1
       /\ state'.selectedOptionIndex = NoOption
       /\ state'.selectedTeamId = NoTeam
       /\ \A t \in DOMAIN state'.scores : state'.scores[t] = 0
       /\ \A t \in DOMAIN state'.answeredCount : state'.answeredCount[t] = 0
       /\ \A t \in DOMAIN state'.correctCount : state'.correctCount[t] = 0]_vars

\* C14: the order of the bank is chosen by the load and by nothing else:
\* reset, start and every other event leave state.questions as it is, and
\* once the load has completed no event changes it.
C14_OrderFixedAfterLoad ==
  [][(last'.op # "load" \/ loadPc = "done")
       => state'.questions = state.questions]_vars

\* a quiz on a bank of two different questions has been played and reset
C14_Witness ==
  /\ last.op = "reset" /\ last.res = "ok"
  /\ Len(state.questions) = 2
  /\ state.questions[1] # state.questions[2]
  /\ \E t \in DOMAIN state.answeredCount : state.answeredCount[t] > 0

\* C15: the standings of every reachable state hold each team exactly once,
\* in ranks 1..number of teams, by score descending, two teams with equal
\* scores in their entry order, and each row carries its team's own name,
\* score, answeredCount and correctCount.
C15_Standings ==
  LET rows == renderStandings(state)
      n == Len(state.teams)
      Entry(id) == CHOOSE i \in 1..n : state.teams[i].id = id
  IN /\ DOMAIN rows = 1..n
     /\ {rows[k].id : k \in 1..n} = TeamIdSet(state.teams)
     /\ \A k \in 1..n :
          LET id == rows[k].id IN
            /\ rows[k].name = state.teams[Entry(id)].name
            /\ id \in DOMAIN state.scores
            /\ rows[k].score = state.scores[id]
            /\ rows[k].answered = state.answeredCount[id]
            /\ rows[k].correct = state.correctCount[id]
     /\ \A j \in 1..n : \A k \in 1..n :
          j < k =>
            /\ rows[j].score >= rows[k].score
            /\ rows[j].score = rows[k].score
                 => Entry(rows[j].id) < Entry(rows[k].id)

\* the team entered second leads, so the standings do not follow entry order
C15_Witness ==
  /\ Len(state.teams) = 2
  /\ state.scores["team-1"] > state.scores["team-0"]
  /\ state.scores["team-0"] > 0
  /\ renderStandings(state)[1].id = "team-1"

\* C16: no sequence of operator events reaches a scoring step whose current
\* question or selected team is undefined: no run of confirmScore or
\* maybeScore that got past the selection guard has thrown on
\* state.questions[state.currentIndex] or on the team looked up in the roster.
C16_ScoringNeverUndefined == last.res # "threw"

\* a text cell that is present and not empty
Filled(cell) == cell # "" /\ cell # Undefined

\* the records with a question text and four options, in input order
RECURSIVE KeptRecords(_)
KeptRecords(records) ==
  IF records = <<>> THEN <<>>
  ELSE LET r == Head(records)
           keep == /\ Filled(r.question)
                   /\ Filled(r.option1) /\ Filled(r.option2)
                   /\ Filled(r.option3) /\ Filled(r.option4)
       IN (IF keep THEN <<r>> ELSE <<>>) \o KeptRecords(Tail(records))

\* C17: for every sequence of parsed records the result of csvToQuestions
\* holds exactly the records whose question text and four options are all
\* non-empty, in input order; a record with an empty or missing text or
\* option is not in it.
C17_ValidationFilter ==
  loadPc = "converted" =>
    LET kept == KeptRecords(last.arg)
        qs == state.questions
    IN /\ Len(qs) = Len(kept)
       /\ \A i \in 1..Len(qs) :
            /\ qs[i].text = kept[i].question
            /\ qs[i].options = <<kept[i].option1, kept[i].option2,
                                  kept[i].option3, kept[i].option4>>
            /\ qs[i] = ToQuestion(kept[i])
            /\ qs[i].text # ""
            /\ \A k \in 1..4 : qs[i].options[k] # ""

\* of two rows the first, which lacks its fourth option, has been dropped
C17_Witness ==
  /\ loadPc = "converted"
  /\ Len(last.arg) = 2
  /\ last.arg[1].option4 = Undefined
  /\ Len(state.questions) = 1

\* how often x occurs in the sequence a
Occurrences(a, x) == Cardinality({i \in 1..Len(a) : a[i] = x})

\* C18: for every input sequence and every outcome of the random choices
\* shuffleArray returns a sequence of the same length with the same multiset
\* of records, and leaves the input sequence as it was.
C18_ShufflePermutes ==
  [][last'.op = "shuffleArray" =>
       LET input == state.questions
           ret == state'.questions
       IN /\ Len(ret) = Len(input)
          /\ \A i \in 1..Len(input) :
               Occurrences(ret, input[i]) = Occurrences(input, input[i])
          /\ \A i \in 1..Len(ret) :
               Occurrences(ret, ret[i]) = Occurrences(input, ret[i])
          /\ last'.arg = input]_vars

\* a shuffle has exchanged two different questions
C18_Witness ==
  /\ last.op = "shuffleArray"
  /\ Len(state.questions) = 2
  /\ state.questions # last.arg
  /\ state.questions[1] = last.arg[2]

\* C19: every question the loader produces has a positive points value: the
\* integer in the points field when that is positive, and 10 when the field
\* is missing, non-numeric, zero or negative.
C19_PointsPositive ==
  loadPc = "converted" =>
    LET kept == KeptRecords(last.arg) IN
      \A i \in 1..Len(state.questions) :
        LET p == ParseInt(kept[i].points)
            q == state.questions[i]
        IN /\ q.points > 0
           /\ q.points = IF ~p.nan /\ p.n > 0 THEN p.n ELSE 10

Clamp(n, lo, hi) == IF n < lo THEN lo ELSE IF n > hi THEN hi ELSE n

\* C20: for every correctIndex field the loader's 0-based index is in 0..3,
\* is clamp(n, 1, 4) - 1 when the field parses to the integer n (n <= 0 and
\* n >= 5 included), and is 0 when the field is missing or non-numeric.
C20_CorrectIndexClamped ==
  loadPc = "converted" =>
    LET kept == KeptRecords(last.arg) IN
      \A i \in 1..Len(state.questions) :
        LET p == ParseInt(kept[i].correctIndex)
            q == state.questions[i]
        IN /\ q.correctIndex \in 0..3
           /\ q.correctIndex = IF p.nan THEN 0 ELSE Clamp(p.n, 1, 4) - 1

\* a row with correctIndex -5 and a row with correctIndex 9 have been
\* converted to the indices 0 and 3
C20_Witness ==
  /\ loadPc = "converted"
  /\ Len(last.arg) = 2
  /\ last.arg[1].correctIndex = "-5"
  /\ last.arg[2].correctIndex = "9"
  /\ Len(state.questions) = 2
  /\ state.questions[1].correctIndex = 0
  /\ state.questions[2].correctIndex = 3

\* C21: right after every accepted submitAnswer both selectedOptionIndex and
\* selectedTeamId are unset.
C21_SubmitClearsSelection ==
  (last.op = "submit" /\ last.res = "ok") =>
    /\ state.selectedOptionIndex = NoOption
    /\ state.selectedTeamId = NoTeam

\* C22: a selectOption or selectTeam event issued while the quiz is not
\* started (before start, after reset), after it has finished, or after the
\* answer of the question on show was submitted leaves both selections as
\* they were; an accepted one writes its own selection field only, and
\* leaves the rest of the state alone.
C22_SelectOnlyWhileAwaiting ==
  [][last'.op \in {"option", "team"} =>
       IF ~state.quizStarted \/ Finished \/ AnswerLocked
       THEN /\ state'.selectedOptionIndex = state.selectedOptionIndex
            /\ state'.selectedTeamId = state.selectedTeamId
       ELSE /\ last'.op = "option" =>
                 state' = [state EXCEPT
                             !.selectedOptionIndex = state'.selectedOptionIndex]
            /\ last'.op = "team" =>
                 state' = [state EXCEPT
                             !.selectedTeamId = state'.selectedTeamId]]_vars

\* C23: in every state reached after a start, scores, answeredCount and
\* correctCount have the same key set, the ids of the current teams, one key
\* per team, and every value of the three is a non-negative integer.
C23_TalliesKeyedByTeams ==
  Len(state.teams) > 0 =>
    LET ids == TeamIdSet(state.teams) IN
      /\ Cardinality(ids) = Len(state.teams)
      /\ DOMAIN state.scores = ids
      /\ DOMAIN state.answeredCount = ids
      /\ DOMAIN state.correctCount = ids
      /\ \A t \in ids :
           /\ state.scores[t] \in Nat
           /\ state.answeredCount[t] \in Nat
           /\ state.correctCount[t] \in Nat

\* C24: the teams built by start have no blank name, no name twice and
\* pairwise distinct ids, and no event of a started quiz changes the team
\* sequence (a new roster needs a reset, then a start).
C24_TeamsDistinctAndFixed ==
  [][/\ \A i \in 1..Len(state'.teams) :
          /\ state'.teams[i].name # ""
          /\ \A j \in 1..Len(state'.teams) :
               i # j => /\ state'.teams[i].name # state'.teams[j].name
                        /\ state'.teams[i].id # state'.teams[j].id
     /\ state.quizStarted => state'.teams = state.teams]_vars

\* C25: once a load has succeeded no later event (a pasted bank loaded while
\* a quiz is in progress in particular) replaces state.questions, and none
\* puts currentIndex back to -1 while quizStarted is true.
C25_BankFixedOnceLoaded ==
  [][Len(state.questions) > 0 =>
       /\ state'.questions = state.questions
       /\ state.quizStarted =>
            ~(state'.quizStarted /\ state'.currentIndex = 0 - 1)]_vars

\* C26: once the quiz has finished no submitAnswer, selectOption or
\* selectTeam event changes scores, answeredCount or correctCount, also when
\* an option and a team were selected and not submitted at the moment the
\* quiz finished.
C26_NoScoringAfterFinish ==
  [][(Finished /\ last'.op \in {"submit", "option", "team"})
       => Tallies(state') = Tallies(state)]_vars

\* C28: a reset the operator declines leaves the state object (quizStarted,
\* currentIndex, both selections, teams, questions, all tallies) and the
\* page as they were.
C28_DeclinedResetNoChange ==
  [][(last'.op = "reset" /\ last'.res = "declined")
       => (state' = state /\ dom' = dom)]_vars

\* a reset has just been declined in a started quiz with an answer scored
\* and a selection pending
C28_Witness ==
  /\ last.op = "reset" /\ last.res = "declined"
  /\ state.quizStarted
  /\ state.currentIndex = 1
  /\ state.selectedOptionIndex # NoOption
  /\ \E t \in DOMAIN state.answeredCount : state.answeredCount[t] > 0

RECURSIVE Factorial(_)
Factorial(n) == IF n <= 1 THEN 1 ELSE n * Factorial(n - 1)

\* the orders a sequence of distinct elements can be put in
Orderings(a) ==
  LET n == Len(a)
      Bijections == {p \in [1..n -> 1..n] : \A i, j \in 1..n : p[i] = p[j] => i = j}
  IN {[i \in 1..n |-> a[p[i]]] : p \in Bijections}

\* C27: for every sequence of n distinct records every one of its n!
\* permutations is a result of shuffleArray, and each is produced by exactly
\* one sequence of the random indices j in 0..i chosen for i = n-1 down to 1.
C27_EveryPermutationOnce ==
  (/\ loadPc = "converted"
   /\ \A i, j \in 1..Len(state.questions) :
        state.questions[i] = state.questions[j] => i = j)
    => LET qs == state.questions
           n == Len(qs)
       IN /\ Cardinality(Orderings(qs)) = Factorial(n)
          /\ Cardinality(RandomChoices(n)) = Factorial(n)
          /\ \A perm \in Orderings(qs) :
               Cardinality({js \in RandomChoices(n) :
                              shuffleArray(qs, js) = perm}) = 1

\* as many distinct questions as the bound on the rows allows are about to be
\* shuffled
C27_Witness ==
  /\ loadPc = "converted"
  /\ Len(state.questions) = MaxRows
  /\ \A i, j \in 1..Len(state.questions) :
       state.questions[i] = state.questions[j] => i = j

====
